---------------------------- MODULE Spec2Model ----------------------------
(***************************************************************************)
(* A model of the YOLO segmentation demo (nnovofastovskiy/yolo_tfjs).      *)
(*                                                                         *)
(* Part I  (Spec)     the page's event handlers and the per-image pipeline *)
(*                    detectAndSegment of src/vite.config.ts (the entry    *)
(*                    with mode, display and threshold controls) and of    *)
(*                    src/src/main.ts (the entry with the upload only).    *)
(* Part II (SpecPost) the postprocessing of src/unnamed/part_000:          *)
(*                    processSegmentation, calculateIoU, applyNMS and      *)
(*                    decodeMasks, computed on bounded inputs.             *)
(* Part III (SpecDraw) drawSegmentationMask of src/unnamed/part_000 on the  *)
(*                    canvas of a small image.                             *)
(***************************************************************************)
EXTENDS Integers, Sequences, FiniteSets, TLC

(***************************************************************************)
(* Bounds of the model.                                                    *)
(***************************************************************************)
\* files the user can pick in the upload control
MaxFiles == 2
\* FileReaders that may be reading at the same time
MaxReads == 2
\* tensors the faults of the model may leave allocated
MaxLeak == 3
\* anchor rows of one model output
MaxRows == 3

VARIABLES
    \* ---- Part I: module state of the entry file
    entry,            \* which entry file is the page's script
    initPc,           \* initModel: "await" (loading), "done", "failed"
    model,            \* model # null
    isProcessing,     \* the reentrancy guard
    currentMode,      \* "detection" | "segmentation"
    currentThreshold, \* the confidence threshold, in hundredths
    showBoxes,        \* elements.showBoxes.checked
    uploadDisabled,   \* elements.imageUpload.disabled
    radiosDisabled,   \* elements.modeRadios[*].disabled
    boxesDisabled,    \* elements.showBoxes.disabled
    src,              \* elements.sourceImage.src: 0 is "", else the file shown
    onload,           \* elements.sourceImage.onload is assigned
    loadPending,      \* the image element is loading src; a load event is due
    shown,            \* the file whose bitmap the image element holds: its
                      \* width and height are that file's; 0 is none (0 x 0)
    pendingReads,     \* the files the FileReaders are reading
    runs,             \* the calls of detectAndSegment suspended at an await
    numTensors,       \* tf.memory().numTensors owed to the pipeline
    \* ---- observers (not program state): what happened last
    lastEvent,        \* the handler that ran last
    lastExit,         \* how the last call of detectAndSegment left, if any
    \* ---- Part II: one call of processSegmentation
    stage,            \* the call: "called", "filtered", "nms", "returned"
    data,             \* data[0]: the anchor rows of the transposed output
    letterbox,        \* scale (a fraction num/den), padL, padT
    threshold,        \* the confidence threshold, in hundredths
    iouThreshold,     \* the IoU threshold handed to applyNMS, in hundredths
    enableMasks,      \* the enableMasks argument
    maskProtos,       \* output[1] with its batch axis squeezed, or NoProtos
    results,          \* the candidates that passed the confidence filter
    nmsResults,       \* what applyNMS returned, then with masks
    iouCalls,         \* observer: the calls of calculateIoU applyNMS made
    maskFaults,       \* observer: the detections whose mask computation threw
    backendFaults,    \* observer: the detections the backend failed for
    threw,            \* observer: an error left decodeMasks
    \* ---- Part III: one call of drawSegmentationMask
    drawStage,        \* the call: "called", "returned"
    image,            \* the source image: width, height, its pixels' value
    detection,        \* the detection argument
    color,            \* the color argument: the hex digits after the '#'
    canvas            \* the canvas bitmap: the RGBA value of every pixel

startVars == <<isProcessing, uploadDisabled, radiosDisabled, boxesDisabled,
               runs, numTensors, lastExit>>
pageVars == <<entry, initPc, model, isProcessing, currentMode, currentThreshold,
              showBoxes, uploadDisabled, radiosDisabled, boxesDisabled, src,
              onload, loadPending, shown, pendingReads, runs, numTensors,
              lastEvent, lastExit>>
postVars == <<stage, data, letterbox, threshold, iouThreshold, enableMasks,
              maskProtos, results, nmsResults, iouCalls, maskFaults,
              backendFaults, threw>>
drawVars == <<drawStage, image, detection, color, canvas>>
vars == <<pageVars, postVars, drawVars>>

Entries == {"main.ts", "vite.config.ts"}
Modes == {"detection", "segmentation"}
Thresholds == {25, 50}
Files == 1..MaxFiles

(***************************************************************************)
(* initModel.                                                              *)
(***************************************************************************)
PageInit ==
    /\ entry \in Entries
    /\ initPc = "await"
    /\ model = FALSE
    /\ isProcessing = FALSE
    /\ currentMode = "detection"
    /\ currentThreshold = 50
    /\ showBoxes \in BOOLEAN
    /\ uploadDisabled \in BOOLEAN
    /\ radiosDisabled = FALSE
    /\ boxesDisabled = FALSE
    /\ src = 0
    /\ onload = FALSE
    /\ loadPending = FALSE
    /\ shown = 0
    /\ pendingReads = <<>>
    /\ runs = <<>>
    /\ numTensors = 0
    /\ lastEvent = "none"
    /\ lastExit = "none"

\* loadModel resolved: the model is assigned and the upload control enabled.
InitModelOk ==
    /\ initPc = "await"
    /\ initPc' = "done"
    /\ model' = TRUE
    /\ uploadDisabled' = FALSE
    /\ UNCHANGED <<postVars, drawVars, shown, entry, isProcessing, currentMode,
                   currentThreshold, showBoxes, radiosDisabled, boxesDisabled,
                   src, onload, loadPending, pendingReads, runs, numTensors,
                   lastEvent, lastExit>>

\* A slip: the model is assigned although loading it failed.
InitModelFailAssigns ==
    /\ initPc = "await"
    /\ initPc' = "failed"
    /\ model' = TRUE
    /\ UNCHANGED <<postVars, drawVars, shown, entry, isProcessing, currentMode,
                   currentThreshold, showBoxes, uploadDisabled, radiosDisabled,
                   boxesDisabled, src, onload, loadPending, pendingReads, runs,
                   numTensors, lastEvent, lastExit>>

\* loadModel rejected: the catch block reports it; model stays null.
InitModelFail ==
    /\ initPc = "await"
    /\ initPc' = "failed"
    /\ UNCHANGED <<postVars, drawVars, shown, entry, model, isProcessing,
                   currentMode, currentThreshold, showBoxes, uploadDisabled,
                   radiosDisabled, boxesDisabled, src, onload, loadPending,
                   pendingReads, runs, numTensors, lastEvent, lastExit>>


(***************************************************************************)
(* detectAndSegment.  A call runs synchronously up to its first real       *)
(* suspension point: the await of model.executeAsync (main.ts) or, inside  *)
(* processSegmentation, the await of transposed.array().  The awaits of    *)
(* already-settled promises that follow resume in microtasks, before any   *)
(* event handler can run, and are part of the resuming step.               *)
(***************************************************************************)
Remove(s, i) == [k \in 1..(Len(s) - 1) |-> IF k < i THEN s[k] ELSE s[k + 1]]

\* A fault that leaves `after` tensors allocated is within the fault budget.
WithinLeak(after) == after <= MaxLeak

\* A slip: the guard forgets the reentrancy flag.
CanStartUnguarded == model

\* line 117: if (!model || isProcessing) return;
CanStart == model /\ ~isProcessing

\* lines 119-126: the flag is set and the controls are disabled.
Disable ==
    /\ isProcessing' = TRUE
    /\ uploadDisabled' = TRUE
    /\ IF entry = "vite.config.ts"
          THEN radiosDisabled' = TRUE /\ boxesDisabled' = TRUE
          ELSE UNCHANGED <<radiosDisabled, boxesDisabled>>

\* the finally block: the flag is cleared and the controls are enabled.
Finally ==
    /\ isProcessing' = FALSE
    /\ uploadDisabled' = FALSE
    /\ IF entry = "vite.config.ts"
          THEN radiosDisabled' = FALSE /\ boxesDisabled' = FALSE
          ELSE UNCHANGED <<radiosDisabled, boxesDisabled>>

Run(pc, held, mode, img) ==
    [pc |-> pc, held |-> held, mode |-> mode, img |-> img]

\* The call detectAndSegment(elements.sourceImage), made with the mode `mode`
\* current at the call.
DetectAndSegment(mode) ==
    IF ~CanStart
    THEN /\ lastExit' = "guard"
         /\ UNCHANGED <<isProcessing, uploadDisabled, radiosDisabled,
                        boxesDisabled, runs, numTensors>>
    ELSE \/ \* getContext('2d') is null: return, before the try block
            /\ Disable
            /\ lastExit' = "noctx"
            /\ UNCHANGED <<runs, numTensors>>
         \/ \* sizing the canvas or drawImage throws, before the try block
            /\ Disable
            /\ lastExit' = "throwCanvas"
            /\ UNCHANGED <<runs, numTensors>>
         \/ \* preprocessImage throws (it does when the image element holds
            \* no bitmap, nh and nw being NaN): tf.tidy releases what it made
            /\ Finally
            /\ lastExit' = "caught"
            /\ UNCHANGED <<runs, numTensors>>
         \/ \* main.ts: suspended at await model.executeAsync(tensor)
            /\ entry = "main.ts"
            /\ shown' # 0
            /\ Disable
            /\ runs' = Append(runs, Run("execute", {"tensor"}, mode, shown'))
            /\ numTensors' = numTensors + 1
            /\ lastExit' = "suspended"
         \/ \* vite.config.ts: model.execute(tensor) throws
            /\ entry = "vite.config.ts"
            /\ shown' # 0
            /\ WithinLeak(numTensors + 1)
            /\ Finally
            /\ numTensors' = numTensors + 1
            /\ lastExit' = "caught"
            /\ UNCHANGED runs
         \/ \* vite.config.ts: boxesOut.transpose throws in processSegmentation
            /\ entry = "vite.config.ts"
            /\ shown' # 0
            /\ WithinLeak(numTensors + 2)
            /\ Finally
            /\ numTensors' = numTensors + 2
            /\ lastExit' = "caught"
            /\ UNCHANGED runs
         \/ \* vite.config.ts: suspended at await transposed.array()
            /\ entry = "vite.config.ts"
            /\ shown' # 0
            /\ Disable
            /\ runs' = Append(runs, Run("array", {"tensor", "predictions",
                                                  "transposed"}, mode, shown'))
            /\ numTensors' = numTensors + 3
            /\ lastExit' = "suspended"

\* main.ts: the await of model.executeAsync settles for run i.
ResumeExecute ==
    \E i \in 1..Len(runs) :
        /\ runs[i].pc = "execute"
        /\ \/ \* executeAsync rejected: catch, finally; tensor stays allocated
              /\ WithinLeak(numTensors)
              /\ Finally
              /\ runs' = Remove(runs, i)
              /\ numTensors' = numTensors
              /\ lastExit' = "caught"
           \/ \* boxesOut.transpose throws in processSegmentation
              /\ WithinLeak(numTensors + 1)
              /\ Finally
              /\ runs' = Remove(runs, i)
              /\ numTensors' = numTensors + 1
              /\ lastExit' = "caught"
           \/ \* suspended at await transposed.array()
              /\ runs' = [runs EXCEPT ![i] =
                            Run("array", {"tensor", "predictions", "transposed"},
                                @.mode, @.img)]
              /\ numTensors' = numTensors + 2
              /\ lastExit' = "suspended"
              /\ UNCHANGED <<isProcessing, uploadDisabled, radiosDisabled,
                             boxesDisabled>>
        /\ UNCHANGED <<postVars, drawVars, shown, entry, initPc, model,
                       currentMode, currentThreshold, showBoxes, src, onload,
                       loadPending, pendingReads, lastEvent>>

\* The await of transposed.array() settles for run i; the rest of the run
\* (decoding, NMS, masks, drawing, tf.dispose, finally) is synchronous.
ResumeArray ==
    \E i \in 1..Len(runs) :
        /\ runs[i].pc = "array"
        /\ \/ \* array() rejected or the decoding loop throws, before
              \* transposed.dispose(): all three stay allocated
              /\ WithinLeak(numTensors)
              /\ numTensors' = numTensors
              /\ lastExit' = "caught"
           \/ \* applyNMS, decodeMasks or drawDetections throws, after
              \* transposed.dispose() and before tf.dispose
              /\ WithinLeak(numTensors - 1)
              /\ numTensors' = numTensors - 1
              /\ lastExit' = "caught"
           \/ \* the run completes: tf.dispose([tensor, predictions])
              /\ numTensors' = numTensors - 3
              /\ lastExit' = "finished"
        /\ Finally
        /\ runs' = Remove(runs, i)
        /\ UNCHANGED <<postVars, drawVars, shown, entry, initPc, model,
                       currentMode, currentThreshold, showBoxes, src, onload,
                       loadPending, pendingReads, lastEvent>>

(***************************************************************************)
(* The event handlers.  Events are let arrive whatever the controls'       *)
(* disabled state: the guards of the code, not the browser, are modelled.  *)
(***************************************************************************)
\* The reads in progress with the read of f added.  The FileReaders are not
\* ordered among themselves (any of them may finish next), so the list is
\* kept by file number.
RECURSIVE AddRead(_, _)
AddRead(reads, f) ==
    IF reads = <<>> \/ f <= Head(reads) THEN <<f>> \o reads
    ELSE <<Head(reads)>> \o AddRead(Tail(reads), f)

\* handleImageUpload: the change event of the upload control; f = 0 is an
\* event without a file.
HandleImageUpload ==
    \E f \in Files \cup {0} :
        /\ Len(pendingReads) < MaxReads
        /\ lastEvent' = "upload"
        /\ IF f = 0 \/ ~model \/ isProcessing
              THEN UNCHANGED pendingReads
              ELSE pendingReads' = AddRead(pendingReads, f)
        /\ UNCHANGED <<postVars, drawVars, shown, entry, initPc, model,
                       isProcessing, currentMode, currentThreshold, showBoxes,
                       uploadDisabled, radiosDisabled, boxesDisabled, src,
                       onload, loadPending, runs, numTensors, lastExit>>

\* reader.onload: a FileReader finished, with a result or without one.
FileReadDone ==
    \E i \in 1..Len(pendingReads), hasResult \in BOOLEAN :
        /\ pendingReads' = Remove(pendingReads, i)
        /\ lastEvent' = "fileread"
        /\ IF hasResult
              THEN /\ src' = pendingReads[i]
                   /\ onload' = TRUE
                   /\ loadPending' = TRUE
              ELSE UNCHANGED <<src, onload, loadPending>>
        /\ UNCHANGED <<postVars, drawVars, shown, entry, initPc, model,
                       isProcessing, currentMode, currentThreshold, showBoxes,
                       uploadDisabled, radiosDisabled, boxesDisabled, runs,
                       numTensors, lastExit>>

\* sourceImage.onload: the image element loaded src.
ImageLoad ==
    /\ loadPending
    /\ loadPending' = FALSE
    /\ shown' = src
    /\ lastEvent' = "imageload"
    /\ IF onload THEN DetectAndSegment(currentMode) ELSE UNCHANGED startVars
    /\ UNCHANGED <<postVars, drawVars, entry, initPc, model, currentMode,
                   currentThreshold, showBoxes, src, onload, pendingReads>>

\* The image element could not decode src: no load event follows.
ImageError ==
    /\ loadPending
    /\ loadPending' = FALSE
    /\ shown' = 0
    /\ lastEvent' = "imageerror"
    /\ UNCHANGED <<postVars, drawVars, entry, initPc, model, isProcessing,
                   currentMode, currentThreshold, showBoxes, uploadDisabled,
                   radiosDisabled, boxesDisabled, src, onload, pendingReads,
                   runs, numTensors, lastExit>>

\* handleModeChange (vite.config.ts).
HandleModeChange ==
    \E m \in Modes :
        /\ entry = "vite.config.ts"
        /\ currentMode' = m
        /\ lastEvent' = "mode"
        /\ UNCHANGED <<postVars, drawVars, shown, entry, initPc, model,
                       currentThreshold, showBoxes, src, onload, loadPending,
                       pendingReads>>
        /\ IF src # 0 /\ ~isProcessing
              THEN DetectAndSegment(m)
              ELSE UNCHANGED startVars

\* handleDisplayOptionChange (vite.config.ts): the checkbox was toggled.
HandleDisplayOptionChange ==
    /\ entry = "vite.config.ts"
    /\ showBoxes' = ~showBoxes
    /\ lastEvent' = "display"
    /\ UNCHANGED <<postVars, drawVars, shown, entry, initPc, model,
                   currentMode, currentThreshold, src, onload, loadPending,
                   pendingReads>>
    /\ IF src # 0 /\ ~isProcessing
          THEN DetectAndSegment(currentMode)
          ELSE UNCHANGED startVars

\* handleThresholdChange (vite.config.ts).
HandleThresholdChange ==
    \E v \in Thresholds :
        /\ entry = "vite.config.ts"
        /\ currentThreshold' = v
        /\ lastEvent' = "threshold"
        /\ UNCHANGED <<postVars, drawVars, shown, entry, initPc, model,
                       currentMode, showBoxes, src, onload, loadPending,
                       pendingReads>>
        /\ IF src # 0 /\ ~isProcessing
              THEN DetectAndSegment(currentMode)
              ELSE UNCHANGED startVars

\* Part II at rest: no call of processSegmentation is being followed.
PostIdle ==
    /\ stage = "idle"
    /\ data = <<>>
    /\ letterbox = [num |-> 1, den |-> 1, padL |-> 0, padT |-> 0]
    /\ threshold = 50
    /\ iouThreshold = 45
    /\ enableMasks = FALSE
    /\ maskProtos = [shape |-> <<>>, hot |-> <<>>, fill |-> 0]
    /\ results = <<>>
    /\ nmsResults = <<>>
    /\ iouCalls = {}
    /\ maskFaults = {}
    /\ backendFaults = {}
    /\ threw = FALSE

\* Part III at rest: no call of drawSegmentationMask is being followed.
DrawIdle ==
    /\ drawStage = "idle"
    /\ image = [width |-> 0, height |-> 0, pixel |-> <<>>]
    /\ detection = <<>>
    /\ color = <<>>
    /\ canvas = <<>>

Init == PageInit /\ PostIdle /\ DrawIdle

Next ==
    \/ InitModelOk
    \/ InitModelFail
    \/ HandleImageUpload
    \/ FileReadDone
    \/ ImageLoad
    \/ ImageError
    \/ HandleModeChange
    \/ HandleDisplayOptionChange
    \/ HandleThresholdChange
    \/ ResumeExecute
    \/ ResumeArray

Spec == Init /\ [][Next]_vars

(***************************************************************************)
(* Properties of the pipeline (Part I).                                    *)
(***************************************************************************)
ControlsEnabled ==
    /\ ~uploadDisabled
    /\ entry = "vite.config.ts" => ~radiosDisabled /\ ~boxesDisabled

\* C1: every call of detectAndSegment that set isProcessing has, once it has
\* left (by completing, by an error before or inside the try block, or by the
\* return taken when the canvas has no 2D context), cleared isProcessing and
\* enabled the controls again.
C1_RestoredOnEveryExit ==
    lastExit \in {"finished", "caught", "throwCanvas", "noctx"}
        => ~isProcessing /\ ControlsEnabled

\* The exits through the try block do restore the flag and the controls.
C1_RestoredByFinally ==
    lastExit \in {"finished", "caught"} => ~isProcessing /\ ControlsEnabled

C3_TensorsReleased == runs = <<>> => numTensors = 0

\* C4: after a failed model load no run ever starts.
C4_NoRunAfterLoadFailure ==
    initPc = "failed" => ~isProcessing /\ runs = <<>> /\ ~model

\* The model load failed and a mode change to segmentation followed.
C4_Witness ==
    /\ initPc = "failed"
    /\ lastEvent = "mode"
    /\ currentMode = "segmentation"

(***************************************************************************)
(* Part II.  processSegmentation and what it calls.                        *)
(*                                                                         *)
(* Numbers.  Scores and thresholds are in hundredths.  Raw box values are  *)
(* integers of the 640 x 640 input square.  With the letterbox scale the   *)
(* fraction num/den, a decoded box field is held as an integer count of    *)
(* 1/(2 * num) pixels, which makes the halving of lines 81-84 and the      *)
(* division by scale of lines 87-90 exact.  A quotient of two numbers is   *)
(* held as the pair [num, den] and read as JavaScript reads a division.    *)
(***************************************************************************)
\* line 65
NumClasses == 1
\* line 246: the coefficients taken, and line 233: the channel count tested
MaskChannels == 32

Max2(a, b) == IF a >= b THEN a ELSE b
Min2(a, b) == IF a <= b THEN a ELSE b

\* ------------------------------------------------------------ calculateIoU
\* The quotient intersectionArea / unionArea of line 181, not evaluated.
CalculateIoU(box1, box2) ==
    LET x1 == Max2(box1.x, box2.x)
        y1 == Max2(box1.y, box2.y)
        x2 == Min2(box1.x + box1.width, box2.x + box2.width)
        y2 == Min2(box1.y + box1.height, box2.y + box2.height)
        intersectionWidth == Max2(0, x2 - x1)
        intersectionHeight == Max2(0, y2 - y1)
        intersectionArea == intersectionWidth * intersectionHeight
        box1Area == box1.width * box1.height
        box2Area == box2.width * box2.height
        unionArea == box1Area + box2Area - intersectionArea
    IN  [num |-> intersectionArea, den |-> unionArea]

\* The number a JavaScript division num/den yields: 0/0 is NaN, x/0 is an
\* infinity, and else the quotient.
IsNaN(q) == q.den = 0 /\ q.num = 0
IsZero(q) == q.den # 0 /\ q.num = 0

\* q > t/100 as JavaScript compares: false for NaN.
GreaterThan(q, t) ==
    IF q.den = 0 THEN q.num > 0
    ELSE IF q.den > 0 THEN q.num * 100 > t * q.den
    ELSE q.num * 100 < t * q.den

\* ---------------------------------------------------------------- applyNMS
\* [...detections].sort((a, b) => b.score - a.score): Array.prototype.sort is
\* stable, so a detection goes behind those of an equal or higher score.
\* An unstable sort: a detection goes before those of an equal score.
RECURSIVE InsertByScoreTiesFirst(_, _)
InsertByScoreTiesFirst(sorted, d) ==
    IF sorted = <<>> THEN <<d>>
    ELSE IF Head(sorted).score > d.score
         THEN <<Head(sorted)>> \o InsertByScoreTiesFirst(Tail(sorted), d)
         ELSE <<d>> \o sorted

RECURSIVE InsertByScore(_, _)
InsertByScore(sorted, d) ==
    IF sorted = <<>> THEN <<d>>
    ELSE IF Head(sorted).score >= d.score
         THEN <<Head(sorted)>> \o InsertByScore(Tail(sorted), d)
         ELSE <<d>> \o sorted

RECURSIVE SortByScoreFrom(_, _, _)
SortByScoreFrom(detections, k, sorted) ==
    IF k > Len(detections) THEN sorted
    ELSE SortByScoreFrom(detections, k + 1,
                         InsertByScore(sorted, detections[k]))

SortByScore(detections) == SortByScoreFrom(detections, 1, <<>>)

\* lines 199-206: the inner loop over j, for the selected index i.
RECURSIVE Suppress(_, _, _, _, _, _)
Suppress(sorted, i, j, suppressed, calls, iouThr) ==
    IF j > Len(sorted) THEN [suppressed |-> suppressed, calls |-> calls]
    ELSE IF j \in suppressed
         THEN Suppress(sorted, i, j + 1, suppressed, calls, iouThr)
         ELSE LET iou == CalculateIoU(sorted[i].box, sorted[j].box)
                  call == [box1 |-> sorted[i].box, box2 |-> sorted[j].box,
                           iou |-> iou]
              IN  Suppress(sorted, i, j + 1,
                           IF GreaterThan(iou, iouThr)
                              THEN suppressed \cup {j} ELSE suppressed,
                           calls \cup {call}, iouThr)

\* The outer loop without line 194: a suppressed detection is selected too.
RECURSIVE NMSLoopNoSkip(_, _, _, _, _, _)
NMSLoopNoSkip(sorted, i, selected, suppressed, calls, iouThr) ==
    IF i > Len(sorted) THEN [selected |-> selected, calls |-> calls]
    ELSE LET inner == Suppress(sorted, i, i + 1, suppressed, calls, iouThr)
         IN  NMSLoopNoSkip(sorted, i + 1, Append(selected, sorted[i]),
                           inner.suppressed, inner.calls, iouThr)

\* lines 193-207: the outer loop over i.
RECURSIVE NMSLoop(_, _, _, _, _, _)
NMSLoop(sorted, i, selected, suppressed, calls, iouThr) ==
    IF i > Len(sorted) THEN [selected |-> selected, calls |-> calls]
    ELSE IF i \in suppressed
         THEN NMSLoop(sorted, i + 1, selected, suppressed, calls, iouThr)
         ELSE LET inner == Suppress(sorted, i, i + 1, suppressed, calls, iouThr)
              IN  NMSLoop(sorted, i + 1, Append(selected, sorted[i]),
                          inner.suppressed, inner.calls, iouThr)

\* applyNMS: what it returns (selected) and the IoU calls it made.
ApplyNMS(detections, iouThr) ==
    IF Len(detections) = 0 THEN [selected |-> <<>>, calls |-> {}]
    ELSE NMSLoop(SortByScore(detections), 1, <<>>, {}, {}, iouThr)

\* ----------------------------------------------- processSegmentation: rows
\* det.slice(a, b) with 0-based a and exclusive b.
Slice(s, a, b) == SubSeq(s, a + 1, Min2(b, Len(s)))

\* Math.max(...classScores) and classScores.indexOf(maxScore); the rows of
\* the model carry at least 4 + NumClasses values.
RECURSIVE MaxOf(_)
MaxOf(s) == IF Len(s) = 1 THEN s[1] ELSE Max2(s[1], MaxOf(Tail(s)))

IndexOf(s, v) ==
    (CHOOSE k \in 1..Len(s) : s[k] = v /\ \A m \in 1..(k - 1) : s[m] # v) - 1

\* line 79 with the comparison turned: a row at the threshold is rejected.
RejectedAtThreshold(maxScore, thr) == maxScore <= thr

\* line 79: if (maxScore < threshold) continue;
Rejected(maxScore, thr) == maxScore < thr

\* lines 81-91: the box of a row, in units of 1/(2 * lb.num) pixel.
DecodeBox(det, lb) ==
    LET xCenter == det[1]
        yCenter == det[2]
        w == det[3]
        h == det[4]
        \* x1 = xCenter - w / 2, ..., doubled
        x1 == 2 * xCenter - w
        y1 == 2 * yCenter - h
        x2 == 2 * xCenter + w
        y2 == 2 * yCenter + h
    IN  [x |-> (x1 - 2 * lb.padL) * lb.den,
         y |-> (y1 - 2 * lb.padT) * lb.den,
         width |-> (x2 - x1) * lb.den,
         height |-> (y2 - y1) * lb.den]

\* lines 95-100: the record pushed for row i (0-based).  maskCoeffs <<>> and
\* mask <<>> stand for undefined: an empty list is never stored (line 99).
Candidate(det, i, lb) ==
    LET classScores == Slice(det, 4, 4 + NumClasses)
        maxScore == MaxOf(classScores)
    IN  [anchor |-> i,
         box |-> DecodeBox(det, lb),
         score |-> maxScore,
         class |-> IndexOf(classScores, maxScore),
         maskCoeffs |-> Slice(det, 4 + NumClasses, Len(det)),
         mask |-> <<>>]

\* lines 64-101: the loop over the rows.
RECURSIVE FilterFrom(_, _, _, _, _)
FilterFrom(detections, i, thr, lb, out) ==
    IF i >= Len(detections) THEN out
    ELSE LET det == detections[i + 1]
             maxScore == MaxOf(Slice(det, 4, 4 + NumClasses))
         IN  FilterFrom(detections, i + 1, thr, lb,
                        IF Rejected(maxScore, thr) THEN out
                        ELSE Append(out, Candidate(det, i, lb)))

Filter(detections, thr, lb) == FilterFrom(detections, 0, thr, lb, <<>>)

\* ------------------------------------------------------------- decodeMasks
\* A prototype tensor of the model is [shape, hot, fill]: of that shape, with
\* the value fill at the 0-based index hot and 0 elsewhere.
NoProtos == [shape |-> <<>>, hot |-> <<>>, fill |-> 0]

At(p, i0, i1, i2) == IF p.hot = <<i0, i1, i2>> THEN p.fill ELSE 0

\* protosData.transpose([2, 0, 1])
Transpose201(p) ==
    [shape |-> <<p.shape[3], p.shape[1], p.shape[2]>>,
     hot |-> <<p.hot[3], p.hot[1], p.hot[2]>>,
     fill |-> p.fill]

\* lines 230-238: channel-last prototypes are brought to [channels, h, w].
NormalizeProtos(p) ==
    IF /\ Len(p.shape) = 3
       /\ p.shape[3] = MaskChannels \/ p.shape[3] < p.shape[1]
    THEN Transpose201(p) ELSE p

\* tf.sigmoid, in thousandths, rounded; exact to the thousandth for |z| <= 6.
SigmoidTable == <<731, 881, 953, 982, 993, 998>>
Sigmoid(z) ==
    IF z = 0 THEN 500
    ELSE IF z > 6 THEN 1000
    ELSE IF z < -6 THEN 0
    ELSE IF z > 0 THEN SigmoidTable[z]
    ELSE 1000 - SigmoidTable[-z]

\* tf.einsum('c,chw->hw', coeffs, protosData): the cell (y, x), 0-based.
RECURSIVE Contract(_, _, _, _, _)
Contract(coeffs, protosData, c, y, x) ==
    IF c >= Len(coeffs) THEN 0
    ELSE coeffs[c + 1] * At(protosData, c, y, x)
         + Contract(coeffs, protosData, c + 1, y, x)

\* tf.einsum throws when the operands disagree on the size of axis c.
EinsumThrows(coeffs, protosData) ==
    Len(protosData.shape) # 3 \/ Len(coeffs) # protosData.shape[1]

\* lines 246-255: the probability grid of one detection.
MaskOf(det, protosData) ==
    LET coeffs == Slice(det.maskCoeffs, 0, MaskChannels)
    IN  [y \in 1..protosData.shape[2] |->
            [x \in 1..protosData.shape[3] |->
                Sigmoid(Contract(coeffs, protosData, 0, y - 1, x - 1))]]

\* The body of the try block throws for detection i: einsum rejects the
\* operands, or the backend fails (i is in faults).
MaskThrows(det, protosData, i, faults) ==
    \/ i \in faults
    \/ EinsumThrows(Slice(det.maskCoeffs, 0, MaskChannels), protosData)

\* The loop of lines 240-267 without its try/catch: the first error ends the
\* loop and leaves decodeMasks.
RECURSIVE DecodeMasksLoopNoCatch(_, _, _, _, _)
DecodeMasksLoopNoCatch(detections, protosData, i, faults, caught) ==
    IF i >= Len(detections)
    THEN [detections |-> detections, caught |-> caught, threw |-> FALSE]
    ELSE LET det == detections[i + 1]
         IN  IF Len(det.maskCoeffs) = 0
             THEN DecodeMasksLoopNoCatch(detections, protosData, i + 1, faults,
                                         caught)
             ELSE IF MaskThrows(det, protosData, i, faults)
             THEN [detections |-> detections, caught |-> caught,
                   threw |-> TRUE]
             ELSE DecodeMasksLoopNoCatch(
                      [detections EXCEPT ![i + 1].mask = MaskOf(det, protosData)],
                      protosData, i + 1, faults, caught)

\* lines 240-267: the loop over the detections; caught collects the
\* detections whose error the catch block logged.
RECURSIVE DecodeMasksLoop(_, _, _, _, _)
DecodeMasksLoop(detections, protosData, i, faults, caught) ==
    IF i >= Len(detections)
    THEN [detections |-> detections, caught |-> caught, threw |-> FALSE]
    ELSE LET det == detections[i + 1]
         IN  IF Len(det.maskCoeffs) = 0
             THEN DecodeMasksLoop(detections, protosData, i + 1, faults, caught)
             ELSE IF MaskThrows(det, protosData, i, faults)
             THEN DecodeMasksLoop(detections, protosData, i + 1, faults,
                                  caught \cup {i})
             ELSE DecodeMasksLoop(
                      [detections EXCEPT ![i + 1].mask = MaskOf(det, protosData)],
                      protosData, i + 1, faults, caught)

\* decodeMasks(detections, maskProtos, ...) with the backend failing for the
\* detections in faults.
DecodeMasks(detections, protos, faults) ==
    DecodeMasksLoop(detections, NormalizeProtos(protos), 0, faults, {})

(***************************************************************************)
(* One call of processSegmentation on a bounded output.                    *)
(***************************************************************************)
\* Anchors <<xCenter, yCenter, w, h, score, first mask coefficient>>: two
\* overlapping boxes of equal score, a third overlapping the second with a
\* score at the default threshold, a box of no extent, and a row whose raw
\* width is negative.
BaseRows ==
    { <<4, 4, 4, 4, 90, 1>>,
      <<5, 4, 4, 4, 90, -1>>,
      <<6, 4, 4, 4, 50, 2>>,
      <<4, 4, 0, 0, 50, 1>>,
      <<4, 4, -2, 4, 40, 3>> }

\* The row of an anchor in an output with n mask coefficients per row.
Row(b, n) ==
    SubSeq(b, 1, 5) \o [k \in 1..n |-> IF k = 1 THEN b[6]
                                      ELSE IF k > MaskChannels THEN 1 ELSE 0]

\* What the model sends with the boxes: the number of mask coefficients per
\* row, the prototypes, and whether the caller asks for masks.
Heads ==
    { [coeffs |-> 0, protos |-> NoProtos, enableMasks |-> TRUE],
      [coeffs |-> MaskChannels, enableMasks |-> FALSE,
       protos |-> [shape |-> <<1, 1, MaskChannels>>, hot |-> <<0, 0, 0>>,
                   fill |-> 1]],
      [coeffs |-> MaskChannels, enableMasks |-> TRUE,
       protos |-> [shape |-> <<2, 2, MaskChannels>>, hot |-> <<1, 0, 0>>,
                   fill |-> 1]],
      [coeffs |-> MaskChannels - 1, enableMasks |-> TRUE,
       protos |-> [shape |-> <<1, 1, MaskChannels>>, hot |-> <<0, 0, 0>>,
                   fill |-> 1]],
      [coeffs |-> MaskChannels + 1, enableMasks |-> TRUE,
       protos |-> [shape |-> <<1, 1, MaskChannels>>, hot |-> <<0, 0, 0>>,
                   fill |-> 1]] }

\* preprocessImage: a 640 x 640 image (scale 1, no padding) and a 1280 x 960
\* image (scale 1/2, padT 80).
Letterboxes ==
    { [num |-> 1, den |-> 1, padL |-> 0, padT |-> 0],
      [num |-> 1, den |-> 2, padL |-> 0, padT |-> 80] }

\* line 107 passes 0.45; 0.6 is the IoU of two of the boxes of BaseRows.
IouThresholds == {45, 60}

BoundedSeq(S, n) == UNION {[1..k -> S] : k \in 0..n}

\* The page while a call of processSegmentation is followed.
PageAtRest ==
    /\ entry = "vite.config.ts"
    /\ initPc = "done"
    /\ model = TRUE
    /\ isProcessing = TRUE
    /\ currentMode = "segmentation"
    /\ currentThreshold = 50
    /\ showBoxes = TRUE
    /\ uploadDisabled = TRUE
    /\ radiosDisabled = TRUE
    /\ boxesDisabled = TRUE
    /\ src = 1
    /\ onload = TRUE
    /\ loadPending = FALSE
    /\ shown = 1
    /\ pendingReads = <<>>
    /\ runs = <<>>
    /\ numTensors = 0
    /\ lastEvent = "imageload"
    /\ lastExit = "suspended"

InitPost ==
    /\ PageAtRest
    /\ DrawIdle
    /\ stage = "called"
    /\ \E head \in Heads, base \in BoundedSeq(BaseRows, MaxRows) :
          /\ data = [k \in 1..Len(base) |-> Row(base[k], head.coeffs)]
          /\ enableMasks = head.enableMasks
          /\ maskProtos = head.protos
    /\ letterbox \in Letterboxes
    /\ threshold \in Thresholds
    /\ iouThreshold \in IouThresholds
    /\ results = <<>>
    /\ nmsResults = <<>>
    /\ iouCalls = {}
    /\ maskFaults = {}
    /\ backendFaults = {}
    /\ threw = FALSE

\* lines 64-101: the rows are decoded and filtered by confidence.
FilterRows ==
    /\ stage = "called"
    /\ stage' = "filtered"
    /\ results' = Filter(data, threshold, letterbox)
    /\ UNCHANGED <<pageVars, drawVars, data, letterbox, threshold, iouThreshold,
                   enableMasks, maskProtos, nmsResults, iouCalls, maskFaults,
                   backendFaults, threw>>

\* line 107: applyNMS.
SelectByNMS ==
    /\ stage = "filtered"
    /\ stage' = "nms"
    /\ \E r \in {ApplyNMS(results, iouThreshold)} :
          nmsResults' = r.selected /\ iouCalls' = r.calls
    /\ UNCHANGED <<pageVars, drawVars, data, letterbox, threshold, iouThreshold,
                   enableMasks, maskProtos, results, maskFaults,
                   backendFaults, threw>>

\* line 110
WantsMasks == enableMasks /\ maskProtos # NoProtos /\ Len(nmsResults) > 0

\* lines 110-114: decodeMasks is called, the backend failing for no detection
\* or for one of them, and the detections are returned.
ReturnWithMasks ==
    /\ stage = "nms"
    /\ WantsMasks
    /\ \E faults \in {{}} \cup {{i} : i \in 0..(Len(nmsResults) - 1)} :
          \E r \in {DecodeMasks(nmsResults, maskProtos, faults)} :
              /\ nmsResults' = r.detections
              /\ maskFaults' = r.caught
              /\ backendFaults' = faults
              /\ threw' = r.threw
              /\ stage' = IF r.threw THEN "thrown" ELSE "returned"
    /\ UNCHANGED <<pageVars, drawVars, data, letterbox, threshold, iouThreshold,
                   enableMasks, maskProtos, results, iouCalls>>

\* lines 110-114: no masks are asked for, or there is nothing to mask.
ReturnWithoutMasks ==
    /\ stage = "nms"
    /\ ~WantsMasks
    /\ stage' = "returned"
    /\ UNCHANGED <<pageVars, drawVars, data, letterbox, threshold, iouThreshold,
                   enableMasks, maskProtos, results, nmsResults, iouCalls,
                   maskFaults, backendFaults, threw>>

NextPost ==
    \/ FilterRows
    \/ SelectByNMS
    \/ ReturnWithMasks
    \/ ReturnWithoutMasks

SpecPost == InitPost /\ [][NextPost]_vars

(***************************************************************************)
(* Properties of the postprocessing (Part II).                             *)
(***************************************************************************)
AfterNMS == stage \in {"nms", "returned", "thrown"}

\* C5: no two detections applyNMS returns have an IoU above the threshold.
C5_NoOverlapAboveThreshold ==
    AfterNMS =>
        \A p, q \in 1..Len(nmsResults) :
            p # q => ~GreaterThan(CalculateIoU(nmsResults[p].box,
                                               nmsResults[q].box), iouThreshold)

\* applyNMS suppressed a detection and returned at least two.
C5_Witness ==
    /\ stage = "nms"
    /\ Len(nmsResults) >= 2
    /\ Len(nmsResults) < Len(results)

\* The place of a returned detection in the input of applyNMS.
InputIndex(d) == CHOOSE k \in 1..Len(results) : results[k].anchor = d.anchor

\* C6: what applyNMS returns is a subsequence of its input sorted by score
\* descending with equal scores in input order: every detection returned is
\* one of the input, none is returned twice, and of two returned the first
\* has the higher score or, the scores equal, comes first in the input.
C6_StableSortedSubsequence ==
    AfterNMS =>
        /\ \A p \in 1..Len(nmsResults) :
              \E k \in 1..Len(results) :
                  results[k] = [nmsResults[p] EXCEPT !.mask = <<>>]
        /\ \A p, q \in 1..Len(nmsResults) :
              p < q =>
                 /\ nmsResults[p].anchor # nmsResults[q].anchor
                 /\ \/ nmsResults[p].score > nmsResults[q].score
                    \/ /\ nmsResults[p].score = nmsResults[q].score
                       /\ InputIndex(nmsResults[p]) < InputIndex(nmsResults[q])

\* applyNMS returned two detections of equal score, from an input that was
\* not in score order.
C6_Witness ==
    /\ stage = "nms"
    /\ \E p, q \in 1..Len(nmsResults) :
          p < q /\ nmsResults[p].score = nmsResults[q].score
    /\ \E k, m \in 1..Len(results) :
          k < m /\ results[k].score < results[m].score

\* C7: a row is a candidate (before NMS) if and only if its maximum class
\* score is at least the confidence threshold.
C7_CandidateIffAtLeastThreshold ==
    stage # "called" =>
        {results[k].anchor : k \in 1..Len(results)}
            = {i \in 0..(Len(data) - 1) :
                  MaxOf(Slice(data[i + 1], 4, 4 + NumClasses)) >= threshold}

\* The rows held one with a score at the threshold, which is a candidate,
\* and one with a score below it.
C7_Witness ==
    /\ stage = "filtered"
    /\ \E k \in 1..Len(results) : results[k].score = threshold
    /\ \E i \in 1..Len(data) : data[i][5] < threshold

\* C8: every detection processSegmentation returns has a box of width >= 0
\* and height >= 0.
C8_NonNegativeExtent ==
    stage = "returned" =>
        \A p \in 1..Len(nmsResults) :
            nmsResults[p].box.width >= 0 /\ nmsResults[p].box.height >= 0

\* C9: calculateIoU returns 0 when the union area is zero.
C9_ZeroUnionYieldsZero ==
    \A c \in iouCalls : c.iou.den = 0 => IsZero(c.iou)

\* What the code returns for a zero union whose intersection is zero: NaN.
ZeroUnionYieldsNaN ==
    \A c \in iouCalls : (c.iou.den = 0 /\ c.iou.num = 0) => IsNaN(c.iou)

\* C10: decodeMasks returns normally; a detection whose mask computation
\* threw has no mask, and every other detection with mask coefficients has
\* the mask computed from them.
C10_MaskFailureIsLocal ==
    (stage \in {"returned", "thrown"} /\ WantsMasks) =>
        /\ ~threw
        /\ stage = "returned"
        /\ \A i \in 0..(Len(nmsResults) - 1) :
              LET det == nmsResults[i + 1]
              IN  /\ i \in maskFaults => det.mask = <<>>
                  /\ (i \notin maskFaults /\ Len(det.maskCoeffs) > 0) =>
                        det.mask = MaskOf(det, NormalizeProtos(maskProtos))

\* The mask of one detection failed and a later detection got its mask.
C10_Witness ==
    /\ stage = "returned"
    /\ WantsMasks
    /\ \E i, j \in 0..(Len(nmsResults) - 1) :
          /\ i < j
          /\ i \in maskFaults
          /\ j \notin maskFaults
          /\ nmsResults[j + 1].mask # <<>>

\* The channel count of the prototypes as decodeMasks contracts them.
Channels == NormalizeProtos(maskProtos).shape[1]

\* C11: a detection whose list of mask coefficients is not empty and differs
\* in length from the channel count of the prototypes, shorter or longer,
\* gets a mask all the same (the backend not failing for it), and its length
\* is not treated as an error.
C11_LengthMismatchStillMasked ==
    (stage = "returned" /\ WantsMasks) =>
        \A i \in 0..(Len(nmsResults) - 1) :
            LET det == nmsResults[i + 1]
            IN  (/\ Len(det.maskCoeffs) > 0
                 /\ Len(det.maskCoeffs) # Channels
                 /\ i \notin backendFaults)
                    => det.mask # <<>> /\ i \notin maskFaults

\* What the code does with a longer list: the coefficients past the first
\* MaskChannels are dropped and the mask is that of the ones kept.
LongerListIsTruncated ==
    (stage = "returned" /\ WantsMasks) =>
        \A i \in 0..(Len(nmsResults) - 1) :
            LET det == nmsResults[i + 1]
            IN  (/\ Len(det.maskCoeffs) > Channels
                 /\ Channels = MaskChannels
                 /\ i \notin backendFaults)
                    => /\ i \notin maskFaults
                       /\ det.mask =
                             MaskOf([det EXCEPT !.maskCoeffs =
                                         SubSeq(@, 1, MaskChannels)],
                                    NormalizeProtos(maskProtos))

\* What the code does with a shorter list: einsum rejects it, the catch
\* block logs the error and the detection has no mask.
ShorterListHasNoMask ==
    (stage = "returned" /\ WantsMasks) =>
        \A i \in 0..(Len(nmsResults) - 1) :
            LET det == nmsResults[i + 1]
            IN  (Len(det.maskCoeffs) > 0 /\ Len(det.maskCoeffs) < Channels)
                    => det.mask = <<>> /\ i \in maskFaults

(***************************************************************************)
(* Part III.  drawSegmentationMask on a canvas that holds the source       *)
(* image, as detectAndSegment leaves it before drawDetections.             *)
(*                                                                         *)
(* Numbers.  Mask probabilities are in thousandths.  A pixel is the        *)
(* sequence <<r, g, b, a>> of its bytes, and the canvas maps the pixel     *)
(* <<x, y>> to its value as putImageData stores and getImageData returns   *)
(* it.  The images are small, so that every pixel of the canvas is held.   *)
(***************************************************************************)
\* line 16: inputSize, and line 291: the side of the letterbox square
InputSize == 640
\* line 329: maskValue > 0.6
DisplayThreshold == 600
\* line 335: Math.floor(maskValue * 180)
AlphaScale == 180

RECURSIVE GCD(_, _)
GCD(a, b) == IF b = 0 THEN a ELSE GCD(b, a % b)

\* Math.floor and Math.ceil of the quotient a / b, b > 0.
Floor(a, b) == a \div b
Ceil(a, b) == -((-a) \div b)

\* preprocessImage, lines 20-31: the letterbox of a w x h image, the scale
\* held as the fraction num/den in lowest terms.
Preprocess(w, h) ==
    LET side == Max2(w, h)
        g == GCD(InputSize, side)
        num == InputSize \div g
        den == side \div g
        \* Math.round(h * scale), Math.round(w * scale)
        nh == Floor(2 * h * num + den, 2 * den)
        nw == Floor(2 * w * num + den, 2 * den)
    IN  [num |-> num, den |-> den,
         padL |-> Floor(InputSize - nw, 2),
         padT |-> Floor(InputSize - nh, 2)]

\* hexToRgb: six hex digits give the three bytes, anything else is green.
HexToRgb(hex) ==
    IF Len(hex) = 6
    THEN [r |-> 16 * hex[1] + hex[2],
          g |-> 16 * hex[3] + hex[4],
          b |-> 16 * hex[5] + hex[6]]
    ELSE [r |-> 0, g |-> 255, b |-> 0]

\* ctx.createImageData: every pixel is transparent black.
TransparentBlack == <<0, 0, 0, 0>>

\* lines 296-303: the region of the canvas the call works on.  The fields of
\* box count 1/(2 * lb.num) pixel.
Region(box, imgWidth, imgHeight, lb) ==
    LET unit == 2 * lb.num
        boxLeft == Max2(0, Floor(box.x, unit))
        boxTop == Max2(0, Floor(box.y, unit))
        boxRight == Min2(imgWidth, Ceil(box.x + box.width, unit))
        boxBottom == Min2(imgHeight, Ceil(box.y + box.height, unit))
    IN  [left |-> boxLeft, top |-> boxTop,
         width |-> boxRight - boxLeft, height |-> boxBottom - boxTop]

\* lines 318-327: the mask probability mapped to the image pixel
\* (imgX, imgY), or -1 when the pixel maps outside the mask.
MaskValueAt(mask, imgX, imgY, lb) ==
    LET maskHeight == Len(mask)
        maskWidth == Len(mask[1])
        \* x640 / maskScale, with x640 = imgX * scale + padL and
        \* maskScale = 640 / maskWidth
        maskX == Floor((imgX * lb.num + lb.padL * lb.den) * maskWidth,
                       InputSize * lb.den)
        maskY == Floor((imgY * lb.num + lb.padT * lb.den) * maskWidth,
                       InputSize * lb.den)
    IN  IF maskX >= 0 /\ maskX < maskWidth /\ maskY >= 0 /\ maskY < maskHeight
        THEN mask[maskY + 1][maskX + 1]
        ELSE -1

\* lines 311-339: the value the loop leaves in imageData for the image pixel
\* (imgX, imgY) of the region.
ImageDataAt(mask, rgb, imgX, imgY, lb) ==
    LET maskValue == MaskValueAt(mask, imgX, imgY, lb)
    IN  IF maskValue > DisplayThreshold
        THEN <<rgb.r, rgb.g, rgb.b, Floor(maskValue * AlphaScale, 1000)>>
        ELSE TransparentBlack

\* drawSegmentationMask(ctx, det, hex, imgWidth, imgHeight, scale, padL,
\* padT): the canvas after the call.  ctx.putImageData stores the values of
\* imageData in the pixels of the region, whatever they held.
DrawSegmentationMask(ctx, det, hex, imgWidth, imgHeight, lb) ==
    IF det.mask = <<>> THEN ctx
    ELSE LET region == Region(det.box, imgWidth, imgHeight, lb)
             rgb == HexToRgb(hex)
         IN  IF region.width <= 0 \/ region.height <= 0 THEN ctx
             ELSE [p \in DOMAIN ctx |->
                     IF /\ p[1] >= region.left
                        /\ p[1] < region.left + region.width
                        /\ p[2] >= region.top
                        /\ p[2] < region.top + region.height
                     THEN ImageDataAt(det.mask, rgb, p[1], p[2], lb)
                     ELSE ctx[p]]

\* detectAndSegment before the try block: the canvas takes the size of the
\* image and ctx.drawImage(img, 0, 0) copies the image into it.
DrawImage(img) ==
    [p \in (0..(img.width - 1)) \X (0..(img.height - 1)) |-> img.pixel]

\* The images: 8 x 6 (scale 80, padT 80) and 4 x 4 (scale 160, no padding),
\* of opaque grey pixels.
Images ==
    { [width |-> 8, height |-> 6, pixel |-> <<128, 128, 128, 255>>],
      [width |-> 4, height |-> 4, pixel |-> <<128, 128, 128, 255>>] }

\* Output rows <<xCenter, yCenter, w, h, score>>: a box that spans the cells
\* of the mask, one with a fractional edge, one that leaves the image, one
\* of no extent and one whose raw width is negative.
DrawRows ==
    { <<320, 320, 320, 160, 90>>,
      <<220, 240, 200, 160, 90>>,
      <<600, 320, 160, 640, 90>>,
      <<320, 320, 0, 0, 90>>,
      <<320, 320, -160, 160, 90>> }

\* Masks as decodeMasks stores them: none, grids of sigmoid(0), and grids
\* with cells above and below the display threshold.
DrawMasks ==
    { <<>>,
      << <<Sigmoid(1)>> >>,
      << <<Sigmoid(0), Sigmoid(0)>>, <<Sigmoid(0), Sigmoid(0)>> >>,
      << <<Sigmoid(1), Sigmoid(-1)>>, <<Sigmoid(0), Sigmoid(2)>> >>,
      << <<Sigmoid(-1), Sigmoid(3)>>, <<Sigmoid(1), Sigmoid(0)>> >> }

\* Entries of COLORS: '#ff0000', and '#00f', which hexToRgb does not parse.
DrawColors == { <<15, 15, 0, 0, 0, 0>>, <<0, 0, 15>> }

InitDraw ==
    /\ PageAtRest
    /\ PostIdle
    /\ drawStage = "called"
    /\ image \in Images
    /\ \E row \in DrawRows, mask \in DrawMasks :
          detection =
              [Candidate(row, 0, Preprocess(image.width, image.height))
                  EXCEPT !.mask = mask]
    /\ color \in DrawColors
    /\ canvas = DrawImage(image)

\* The call drawDetections makes for a detection (line 137).
CallDrawSegmentationMask ==
    /\ drawStage = "called"
    /\ drawStage' = "returned"
    /\ canvas' = DrawSegmentationMask(canvas, detection, color, image.width,
                                      image.height,
                                      Preprocess(image.width, image.height))
    /\ UNCHANGED <<pageVars, postVars, image, detection, color>>

NextDraw == CallDrawSegmentationMask

SpecDraw == InitDraw /\ [][NextDraw]_vars

(***************************************************************************)
(* Properties of the drawing (Part III).                                   *)
(***************************************************************************)
\* The region of the call followed, and the probability mapped to a pixel.
DrawnRegion ==
    Region(detection.box, image.width, image.height,
           Preprocess(image.width, image.height))

InDrawnRegion(p) ==
    /\ detection.mask # <<>>
    /\ DrawnRegion.width > 0
    /\ DrawnRegion.height > 0
    /\ p[1] >= DrawnRegion.left
    /\ p[1] < DrawnRegion.left + DrawnRegion.width
    /\ p[2] >= DrawnRegion.top
    /\ p[2] < DrawnRegion.top + DrawnRegion.height

Probability(p) ==
    MaskValueAt(detection.mask, p[1], p[2],
                Preprocess(image.width, image.height))

\* C12: the call changes only the pixels that lie in the bounding box clipped
\* to the image and whose mapped mask probability exceeds 0.6; every other
\* pixel, those in the box with a probability of at most 0.6 included, keeps
\* the value it had before the call.
C12_OnlyMaskedPixelsChange ==
    drawStage = "returned" =>
        \A p \in DOMAIN canvas :
            canvas[p] # DrawImage(image)[p]
                => InDrawnRegion(p) /\ Probability(p) > DisplayThreshold

\* What the code keeps: the pixels outside the clipped box.
PixelsOutsideBoxKept ==
    drawStage = "returned" =>
        \A p \in DOMAIN canvas :
            ~InDrawnRegion(p) => canvas[p] = DrawImage(image)[p]

\* What the code does inside the clipped box: a pixel above the threshold
\* takes the palette color, every other one becomes transparent black.
PixelsInsideBoxReplaced ==
    drawStage = "returned" =>
        \A p \in DOMAIN canvas :
            InDrawnRegion(p) =>
                canvas[p] =
                    IF Probability(p) > DisplayThreshold
                    THEN <<HexToRgb(color).r, HexToRgb(color).g,
                           HexToRgb(color).b,
                           Floor(Probability(p) * AlphaScale, 1000)>>
                    ELSE TransparentBlack

(***************************************************************************)
(* Properties of the pipeline across its suspension points (Part I).       *)
(* The files stand for images of different sizes.                          *)
(***************************************************************************)
\* The step resumes run i and passes a place where the run reads img.width,
\* img.height and currentMode again: the arguments of processSegmentation
\* after the await of executeAsync (main.ts 90), or those of drawDetections
\* after the await in processSegmentation (vite.config.ts 160-172, main.ts 96).
ReadsAgain(i) ==
    \/ /\ runs[i].pc = "execute"
       /\ Len(runs') = Len(runs)
       /\ runs'[i].pc = "array"
    \/ /\ runs[i].pc = "array"
       /\ Len(runs') < Len(runs)
       /\ lastExit' = "finished"

\* C13: the image (its dimensions) and the mode a run reads after a
\* suspension point are the ones it read at its start, whatever upload,
\* file-read-complete and mode-change events arrived in between.
C13_SameImageAndModeAfterSuspension ==
    [][ \A i \in 1..Len(runs) :
            ReadsAgain(i) =>
                runs[i].img = shown /\ runs[i].mode = currentMode ]_vars

\* The image half of C13 alone; it does not hold either.
SameImageAfterSuspension ==
    [][ \A i \in 1..Len(runs) : ReadsAgain(i) => runs[i].img = shown ]_vars
=============================================================================
